---- MODULE Spec2Model ----
(***************************************************************************)
(* A model of the typed state-migration engine of the ledger node          *)
(* (crates/sdk/src/migrations.rs): UpdateValue, DbUpdateType::validate and *)
(* DbUpdateType::update run against an abstract key-value store            *)
(* (DBUpdateVisitor) and the registry of type deserializers.               *)
(*                                                                         *)
(* Conventions.  A byte string is a sequence of numbers in 0..255.  A      *)
(* Rust String is a sequence of one-character strings.  Option<T> is a     *)
(* sequence of length at most one: None is << >> and Some(x) is <<x>>.     *)
(***************************************************************************)
EXTENDS Integers, Sequences, FiniteSets, TLC

\* const PRINTLN_CUTOFF: usize = 300;
PRINTLN_CUTOFF == 300

\* How many bytes the long byte strings of the inputs exceed the cutoff by.
Extra == 1

None == << >>
Some(x) == <<x>>

(***************************************************************************)
(* Bytes, borsh encodings and Debug renderings                             *)
(***************************************************************************)
\* The byte b, n times
RECURSIVE Rep(_, _)
Rep(b, n) ==
    IF n = 0 THEN << >>
    ELSE IF n = 1 THEN <<b>>
    ELSE Rep(b, n \div 2) \o Rep(b, n - (n \div 2))

\* The byte string s, n times
RECURSIVE RepSeq(_, _)
RepSeq(s, n) ==
    IF n = 0 THEN << >>
    ELSE IF n = 1 THEN s
    ELSE RepSeq(s, n \div 2) \o RepSeq(s, n - (n \div 2))

\* borsh writes a u32 length prefix little-endian
U32LE(n) == << n % 256, (n \div 256) % 256, (n \div 65536) % 256,
               (n \div 16777216) % 256 >>

\* value.serialize_to_vec() for T = Vec<u8>: length prefix, then the bytes
BorshVecU8(v) == U32LE(Len(v)) \o v

\* value.serialize_to_vec() for T = u64 (n < 2^31 here): 8 bytes little-endian
BorshU64(n) == U32LE(n) \o <<0, 0, 0, 0>>

\* The strings of a Vec<String>, each the length prefix and the UTF-8 bytes
RECURSIVE BorshStrings(_)
BorshStrings(strs) ==
    IF strs = << >> THEN << >>
    ELSE U32LE(Len(Head(strs))) \o Head(strs) \o BorshStrings(Tail(strs))

\* value.serialize_to_vec() for T = Vec<String>, the strings given in UTF-8
BorshVecString(strs) == U32LE(Len(strs)) \o BorshStrings(strs)

DigitChars == <<"0", "1", "2", "3", "4", "5", "6", "7", "8", "9">>

\* format!("{:?}", b) for a byte b
RECURSIVE DecStr(_)
DecStr(n) == IF n < 10 THEN <<DigitChars[n + 1]>>
             ELSE DecStr(n \div 10) \o <<DigitChars[(n % 10) + 1]>>

\* The items b[lo..hi] of the rendering, each but the first after ", " (the range
\* is halved so that the evaluation stays shallow on long byte strings)
RECURSIVE JoinBytes(_, _, _)
JoinBytes(b, lo, hi) ==
    IF lo > hi THEN << >>
    ELSE IF lo = hi
    THEN (IF lo > 1 THEN <<",", " ">> ELSE << >>) \o DecStr(b[lo])
    ELSE LET mid == (lo + hi) \div 2
         IN  JoinBytes(b, lo, mid) \o JoinBytes(b, mid + 1, hi)

\* format!("{:?}", b) for a byte slice or a Vec<u8>: "[5, 6]"
DebugBytes(b) == <<"[">> \o JoinBytes(b, 1, Len(b)) \o <<"]">>

\* format!("{:?}", n) for a u64 given by its 8 little-endian bytes: the decimal
\* digits, by long division of the base-256 number (most significant first)
RECURSIVE Div10(_, _, _)
Div10(d, i, r) ==
    IF i > Len(d) THEN << << >>, r >>
    ELSE LET cur  == r * 256 + d[i]
             rest == Div10(d, i + 1, cur % 10)
         IN  << <<cur \div 10>> \o rest[1], rest[2] >>

IsZero(d) == \A i \in 1..Len(d) : d[i] = 0

RECURSIVE Decimal(_)
Decimal(d) == IF IsZero(d) THEN << >>
              ELSE LET qr == Div10(d, 1, 0)
                   IN  Decimal(qr[1]) \o <<DigitChars[qr[2] + 1]>>

Reverse(s) == [i \in 1..Len(s) |-> s[Len(s) + 1 - i]]

DebugU64(b) == IF IsZero(b) THEN <<"0">> ELSE Decimal(Reverse(b))

(***************************************************************************)
(* The registry of deserializers: TYPE_DESERIALIZERS, filled by            *)
(* derive_borshdeserializer!.  A type hash is modelled by the name of the  *)
(* type it is the hash of; a deserializer handle is the hash it is         *)
(* registered under.  Each deserializer is T::try_from_slice followed by   *)
(* the Debug rendering of the decoded value.                               *)
(***************************************************************************)
HashVecU8 == "Vec<u8>"
HashU64 == "u64"
HashVecString == "Vec<String>"
HashUnregistered == "unregistered"

TypeHashes == {HashVecU8, HashU64, HashVecString, HashUnregistered}

\* Vec::<u8>::try_from_slice: a u32 length prefix followed by exactly that many
\* bytes (every byte string of the model is shorter than 65536 bytes)
DeserializeVecU8(b) ==
    IF /\ Len(b) >= 4
       /\ b[3] = 0
       /\ b[4] = 0
       /\ b[1] + 256 * b[2] = Len(b) - 4
    THEN Some(DebugBytes(SubSeq(b, 5, Len(b))))
    ELSE None

\* u64::try_from_slice: exactly 8 bytes
DeserializeU64(b) == IF Len(b) = 8 THEN Some(DebugU64(b)) ELSE None

\* The printable ASCII characters, from the space (byte 32) to the tilde (126);
\* the grave accent, which no string can hold here, is written by its name
AsciiChars ==
    << " ", "!", "\"", "#", "$", "%", "&", "'", "(", ")", "*", "+",
       ",", "-", ".", "/", "0", "1", "2", "3", "4", "5", "6", "7",
       "8", "9", ":", ";", "<", "=", ">", "?", "@", "A", "B", "C",
       "D", "E", "F", "G", "H", "I", "J", "K", "L", "M", "N", "O",
       "P", "Q", "R", "S", "T", "U", "V", "W", "X", "Y", "Z", "[",
       "\\", "]", "^", "_", "U+0060", "a", "b", "c", "d", "e", "f", "g",
       "h", "i", "j", "k", "l", "m", "n", "o", "p", "q", "r", "s",
       "t", "u", "v", "w", "x", "y", "z", "{", "|", "}", "~" >>

\* A character other than printable ASCII is modelled by a string that names
\* it: the characters of the inputs each by its own name, any other by the
\* name of its range of code points, which has its width in UTF-8
CharE9 == "U+00E9"
Chars2Bytes == "U+0080..U+07FF"
Chars3Bytes == "U+0800..U+FFFF"
Chars4Bytes == "U+10000..U+10FFFF"

\* The number of bytes of the UTF-8 sequence a byte begins, 0 if it begins none
Utf8Lead(b) ==
    IF b < 128 THEN 1
    ELSE IF b >= 194 /\ b <= 223 THEN 2
    ELSE IF b >= 224 /\ b <= 239 THEN 3
    ELSE IF b >= 240 /\ b <= 244 THEN 4
    ELSE 0

Utf8Continuation(b) == b >= 128 /\ b <= 191

\* Whether the bytes u are the UTF-8 encoding of one character
Utf8Unit(u) ==
    /\ Len(u) >= 1
    /\ Utf8Lead(u[1]) = Len(u)
    /\ \A i \in 2..Len(u) : Utf8Continuation(u[i])
    /\ u[1] = 224 => u[2] >= 160
    /\ u[1] = 237 => u[2] <= 159
    /\ u[1] = 240 => u[2] >= 144
    /\ u[1] = 244 => u[2] <= 143

\* The places of the bytes of b that are not continuation bytes, in order
Utf8Starts(b) ==
    SelectSeq([i \in 1..Len(b) |-> i], LAMBDA i : ~Utf8Continuation(b[i]))

\* The bytes of b from its k-th start to the byte before the next one
Utf8UnitAt(b, starts, k) ==
    SubSeq(b, starts[k], IF k < Len(starts) THEN starts[k + 1] - 1 ELSE Len(b))

HexChars ==
    <<"0", "1", "2", "3", "4", "5", "6", "7", "8", "9", "a", "b", "c", "d", "e", "f">>

\* format!("{:x}", n)
RECURSIVE HexLower(_)
HexLower(n) == IF n < 16 THEN <<HexChars[n + 1]>>
               ELSE HexLower(n \div 16) \o <<HexChars[(n % 16) + 1]>>

\* The escape \u{..} of the Debug rendering
EscapeUnicode(cp) == <<"\\", "u", "{">> \o HexLower(cp) \o <<"}">>

\* The Debug rendering of one character of a str, given by its UTF-8 bytes:
\* char::escape_debug, which leaves a printable character as it is
DebugChar(u) ==
    IF Len(u) = 1
    THEN CASE u[1] = 0  -> <<"\\", "0">>
           [] u[1] = 9  -> <<"\\", "t">>
           [] u[1] = 10 -> <<"\\", "n">>
           [] u[1] = 13 -> <<"\\", "r">>
           [] u[1] = 34 -> <<"\\", "\"">>
           [] u[1] = 92 -> <<"\\", "\\">>
           [] u[1] < 32 \/ u[1] = 127 -> EscapeUnicode(u[1])
           [] OTHER -> <<AsciiChars[u[1] - 31]>>
    ELSE IF Len(u) = 2
    THEN LET cp == (u[1] - 192) * 64 + (u[2] - 128)
         IN  IF cp < 160 \/ cp = 173 THEN EscapeUnicode(cp)
             ELSE IF cp = 233 THEN <<CharE9>>
             ELSE <<Chars2Bytes>>
    ELSE IF Len(u) = 3 THEN <<Chars3Bytes>>
    ELSE <<Chars4Bytes>>

\* The renderings of the characters lo..hi of b, one after the other (the range
\* is halved, as in JoinBytes)
RECURSIVE DebugChars(_, _, _, _)
DebugChars(b, starts, lo, hi) ==
    IF lo > hi THEN << >>
    ELSE IF lo = hi THEN DebugChar(Utf8UnitAt(b, starts, lo))
    ELSE LET mid == (lo + hi) \div 2
         IN  DebugChars(b, starts, lo, mid) \o DebugChars(b, starts, mid + 1, hi)

\* String::from_utf8 followed by format!("{:?}", s): None where the bytes are
\* not valid UTF-8
DebugString(b) ==
    LET starts == Utf8Starts(b)
    IN  IF /\ Len(b) > 0 => starts # << >> /\ starts[1] = 1
           /\ \A k \in 1..Len(starts) : Utf8Unit(Utf8UnitAt(b, starts, k))
        THEN Some(<<"\"">> \o DebugChars(b, starts, 1, Len(starts)) \o <<"\"">>)
        ELSE None

\* The u32 that the four bytes of b from place at on encode, little-endian; it
\* is a count or a length, only ever compared with the bytes that are left, and
\* is held at 2^30, more than any input has, where it is that or more
U32At(b, at) ==
    IF b[at + 3] >= 64 THEN 1073741824
    ELSE b[at] + 256 * b[at + 1] + 65536 * b[at + 2] + 16777216 * b[at + 3]

\* The rest of Vec::<String>::try_from_slice and of its Debug rendering: n more
\* strings from place at on, each a u32 length prefix and its UTF-8 bytes, and
\* nothing after the last; items is the rendering of the strings read so far
RECURSIVE DeserializeStrings(_, _, _, _)
DeserializeStrings(b, at, n, items) ==
    IF n = 0 THEN (IF at = Len(b) + 1 THEN Some(<<"[">> \o items \o <<"]">>) ELSE None)
    ELSE IF at + 3 > Len(b) THEN None
    ELSE LET len == U32At(b, at)
         IN  IF at + 3 + len > Len(b) THEN None
             ELSE LET str == DebugString(SubSeq(b, at + 4, at + 3 + len))
                  IN  IF str = None THEN None
                      ELSE DeserializeStrings(b, at + 4 + len, n - 1,
                               items \o (IF items = << >> THEN << >> ELSE <<",", " ">>)
                                     \o str[1])

\* Vec::<String>::try_from_slice: a u32 count, then that many strings
DeserializeVecString(b) ==
    IF Len(b) < 4 THEN None ELSE DeserializeStrings(b, 5, U32At(b, 1), << >>)

\* Mutant: an unknown type hash falls back to a registered deserializer
get_deserializer_fallback(type_hash_) ==
    IF type_hash_ \in {HashVecU8, HashVecString, HashU64} THEN Some(type_hash_)
    ELSE Some(HashVecU8)

\* namada_migrations::get_deserializer(&type_hash)
get_deserializer(type_hash) ==
    IF type_hash \in {HashVecU8, HashVecString, HashU64} THEN Some(type_hash) ELSE None

\* des(bytes) for a handle des returned by get_deserializer
Deserialize(des, b) ==
    CASE des = HashVecU8     -> DeserializeVecU8(b)
      [] des = HashVecString -> DeserializeVecString(b)
      [] des = HashU64       -> DeserializeU64(b)

\* The length in bytes of the UTF-8 encoding of a character
Utf8Width(c) ==
    CASE c \in {CharE9, Chars2Bytes} -> 2
      [] c = Chars3Bytes -> 3
      [] c = Chars4Bytes -> 4
      [] OTHER -> 1

\* String::len(): the length in bytes of the UTF-8 encoding
RECURSIVE ByteLenIn(_, _, _)
ByteLenIn(s, lo, hi) ==
    IF lo > hi THEN 0
    ELSE IF lo = hi THEN Utf8Width(s[lo])
    ELSE LET mid == (lo + hi) \div 2
         IN  ByteLenIn(s, lo, mid) + ByteLenIn(s, mid + 1, hi)
ByteLen(s) == ByteLenIn(s, 1, Len(s))

\* s.chars().take(n).collect::<String>()
TakeChars(s, n) == SubSeq(s, 1, IF Len(s) < n THEN Len(s) ELSE n)

Ellipsis == <<" ", ".", ".", ".">>

(***************************************************************************)
(* UpdateValue { type_hash, bytes: UpdateBytes }                           *)
(***************************************************************************)
Raw(to_write_, serialized_) ==
    [tag |-> "Raw", to_write |-> to_write_, serialized |-> serialized_]
Serialized(bytes_) == [tag |-> "Serialized", bytes |-> bytes_]

UpdateValue(type_hash_, bytes_) == [type_hash |-> type_hash_, bytes |-> bytes_]

\* UpdateValue::raw(value) for a value: Vec<u8>
raw(value) == UpdateValue(HashVecU8, Raw(value, BorshVecU8(value)))

\* UpdateValue::from(value) for a value: Vec<u8>, and for a value: u64
from(value) == UpdateValue(HashVecU8, Serialized(BorshVecU8(value)))
from_u64(n) == UpdateValue(HashU64, Serialized(BorshU64(n)))
from_vec_string(strs) == UpdateValue(HashVecString, Serialized(BorshVecString(strs)))

\* Mutant: every value counts as raw
is_raw_always(value) == TRUE

is_raw(value) == value.bytes.tag = "Raw"

\* Mutant: the bytes to write are validated
bytes_to_write(value) ==
    IF value.bytes.tag = "Raw" THEN value.bytes.to_write ELSE value.bytes.bytes

\* UpdateValue::bytes: the canonical bytes, the ones that are validated
bytes(value) ==
    IF value.bytes.tag = "Raw" THEN value.bytes.serialized ELSE value.bytes.bytes

\* Mutant: the canonical bytes are written
to_write_canonical(value) ==
    IF value.bytes.tag = "Raw" THEN value.bytes.serialized ELSE value.bytes.bytes

\* UpdateValue::to_write: the bytes that are written to storage
to_write(value) ==
    IF value.bytes.tag = "Raw" THEN value.bytes.to_write ELSE value.bytes.bytes

(***************************************************************************)
(* DbUpdateType                                                            *)
(***************************************************************************)
Add(key_, value_, force_) ==
    [tag |-> "Add", key |-> key_, value |-> value_, force |-> force_]
Delete(key_) == [tag |-> "Delete", key |-> key_]
RepeatAdd(pattern_, value_, force_) ==
    [tag |-> "RepeatAdd", pattern |-> pattern_, value |-> value_, force |-> force_]
RepeatDelete(pattern_) == [tag |-> "RepeatDelete", pattern |-> pattern_]

IsAdd(self) == self.tag \in {"Add", "RepeatAdd"}

\* DbUpdateType::pattern: the key or pattern being modified, as a string
pattern(self) ==
    IF self.tag \in {"Add", "Delete"} THEN self.key ELSE self.pattern

is_force(self) == IF IsAdd(self) THEN self.force ELSE FALSE

\* &b[..n] panics when n exceeds the length of b; format! of the slice otherwise
formatted_bytes(self) ==
    IF IsAdd(self)
    THEN IF Len(to_write(self.value)) > PRINTLN_CUTOFF
         THEN IF PRINTLN_CUTOFF > Len(bytes(self.value))
              THEN [panic |-> TRUE, str |-> << >>]
              ELSE [panic |-> FALSE,
                    str |-> DebugBytes(SubSeq(bytes(self.value), 1, PRINTLN_CUTOFF))
                            \o Ellipsis]
         ELSE [panic |-> FALSE, str |-> DebugBytes(bytes(self.value))]
    ELSE [panic |-> FALSE, str |-> << >>]

\* One effect of a call, in the order the code performs them
Ev(ev, on, val) == [ev |-> ev, on |-> on, val |-> val]

ValidateResult(res, err, str, des, log_) ==
    [res |-> res, err |-> err, str |-> str, des |-> des, log |-> log_]

\* DbUpdateType::validate: Ok((String, Option<deserializer>)), an error, or a panic
validate(self) ==
    LET entry == Ev("validate", pattern(self), << >>)
    IN
    IF is_force(self)
    THEN LET f == formatted_bytes(self)
         IN  IF f.panic THEN ValidateResult("Panic", "", << >>, None, <<entry>>)
             ELSE ValidateResult("Ok", "", f.str, None, <<entry>>)
    ELSE IF IsAdd(self)
    THEN LET value  == self.value
             found  == get_deserializer(value.type_hash)
             lookup == Ev("get_deserializer", value.type_hash, << >>)
         IN  IF found = None
             THEN ValidateResult("Err", "UnknownType", << >>, None, <<entry, lookup>>)
             ELSE LET des          == found[1]
                      deserialized == Deserialize(des, bytes(value))
                      call         == Ev("deserializer", "value", bytes(value))
                      deserializer == IF is_raw(value) THEN Some(des) ELSE None
                  IN  IF deserialized = None
                      THEN ValidateResult("Err", "DecodeFailure", << >>, None,
                                          <<entry, lookup, call>>)
                      ELSE IF ByteLen(deserialized[1]) > PRINTLN_CUTOFF
                      THEN ValidateResult("Ok", "",
                               TakeChars(deserialized[1], PRINTLN_CUTOFF) \o Ellipsis,
                               deserializer, <<entry, lookup, call>>)
                      ELSE ValidateResult("Ok", "", deserialized[1], deserializer,
                                          <<entry, lookup, call>>)
    ELSE ValidateResult("Ok", "", << >>, None, <<entry>>)

(***************************************************************************)
(* The store (DBUpdateVisitor) and the regular expressions                 *)
(***************************************************************************)
Keys == {"a/1", "a/2", "b/1"}

\* The patterns of the inputs and the keys each matches; "(" does not compile
Patterns == {"a/.*", ".*", "c/.*", "("}

\* Mutant: every pattern compiles (a malformed one to a regex that matches nothing)
RegexNew_lenient(pattern_) == Some(pattern_)

\* Regex::new(pattern): Some(regex), or None for the error that unwrap() panics on
RegexNew(pattern_) == IF pattern_ = "(" THEN None ELSE Some(pattern_)

is_match(regex, key_) ==
    CASE regex = "a/.*" -> key_ \in {"a/1", "a/2"}
      [] regex = ".*"   -> TRUE
      [] OTHER          -> FALSE

\* db.read(key)
read(db_, key_) == db_[key_]

\* Mutant: the store drops the write
write_dropped(db_, key_, value_) == db_

\* db.write(key, value)
write(db_, key_, value_) == [db_ EXCEPT ![key_] = Some(value_)]

\* db.delete(key)
delete(db_, key_) == [db_ EXCEPT ![key_] = None]

\* Mutant: the scan returns every stored key, matching or not
get_pattern_unfiltered(db_, regex, order) ==
    LET matched == SelectSeq(order, LAMBDA k : db_[k] # None)
    IN  [i \in 1..Len(matched) |-> <<matched[i], db_[matched[i]][1]>>]

\* db.get_pattern(regex): the (key, value) pairs of the stored keys that match, in
\* the order the store scans them; order is a sequence of all keys
get_pattern(db_, regex, order) ==
    LET matched == SelectSeq(order, LAMBDA k : db_[k] # None /\ is_match(regex, k))
    IN  [i \in 1..Len(matched) |-> <<matched[i], db_[matched[i]][1]>>]

\* The keys of a scan, in its order
ScannedKeys(scan) == [i \in 1..Len(scan) |-> scan[i][1]]

\* UpdateStatus
StatusAdd(pairs) == [tag |-> "Add", list |-> pairs]
StatusDeleted(keys) == [tag |-> "Deleted", list |-> keys]

UpdateResult(res, err, status, db_, log_) ==
    [res |-> res, err |-> err, status |-> status, db |-> db_, log |-> log_]

\* Mutant: an error of validate() is dropped, only the panic ends the call
returns_early_on_panic_only(v) == v.res = "Panic"

\* self.validate()?: whether the call returns early, with the error or the panic
returns_early(v) == v.res # "Ok"

\* Mutant: the previous value is never checked
type_mismatch_unchecked(deserializer, prev) == FALSE

\* des(prev).ok_or_else(..)? under if let Some(des) = deserializer (and, in the
\* Add arm, Some(prev) = db.read(key)): whether the previous value is rejected
type_mismatch(deserializer, prev) ==
    /\ prev # None
    /\ deserializer # None
    /\ Deserialize(deserializer[1], prev[1]) = None

\* The Add arm of DbUpdateType::update
update_add(self, db_) ==
    LET v == validate(self)
    IN  IF returns_early(v) THEN UpdateResult(v.res, v.err, None, db_, v.log)
        ELSE LET prev   == read(db_, self.key)
                 log1   == Append(v.log, Ev("read", self.key, << >>))
                 log2   == IF prev # None /\ v.des # None
                           THEN Append(log1, Ev("deserializer", self.key, prev[1]))
                           ELSE log1
             IN  IF type_mismatch(v.des, prev)
                 THEN UpdateResult("Err", "TypeMismatch", None, db_, log2)
                 ELSE UpdateResult("Ok", "",
                          Some(StatusAdd(<< <<self.key, v.str>> >>)),
                          write(db_, self.key, to_write(self.value)),
                          Append(log2, Ev("write", self.key, to_write(self.value))))

\* Mutant: a Delete of a key that is not stored is an error
update_delete_if_present(self, db_) ==
    IF read(db_, self.key) = None
    THEN UpdateResult("Err", "TypeMismatch", None, db_, <<Ev("read", self.key, << >>)>>)
    ELSE UpdateResult("Ok", "", Some(StatusDeleted(<<self.key>>)),
                      delete(db_, self.key), <<Ev("delete", self.key, << >>)>>)

\* The Delete arm
update_delete(self, db_) ==
    UpdateResult("Ok", "", Some(StatusDeleted(<<self.key>>)),
                 delete(db_, self.key), <<Ev("delete", self.key, << >>)>>)

\* Mutant: a previous value that is rejected is skipped, and the loop goes on
RECURSIVE repeat_add_loop_skipping(_, _, _, _, _, _, _)
repeat_add_loop_skipping(self, v, scan, i, db_, pairs, log_) ==
    IF i > Len(scan) THEN UpdateResult("Ok", "", Some(StatusAdd(pairs)), db_, log_)
    ELSE LET key_ == scan[i][1]
             prev == scan[i][2]
             log1 == IF v.des # None
                     THEN Append(log_, Ev("deserializer", key_, prev))
                     ELSE log_
             rest == repeat_add_loop_skipping(self, v, scan, i + 1, db_, pairs, log1)
         IN  IF type_mismatch(v.des, Some(prev))
             THEN UpdateResult("Err", "TypeMismatch", None, rest.db, rest.log)
             ELSE repeat_add_loop_skipping(self, v, scan, i + 1,
                      write(db_, key_, to_write(self.value)),
                      Append(pairs, <<key_, v.str>>),
                      Append(log1, Ev("write", key_, to_write(self.value))))

\* Mutant: the pair is reported only in the branch that checks the previous value
RECURSIVE repeat_add_loop_unreported(_, _, _, _, _, _, _)
repeat_add_loop_unreported(self, v, scan, i, db_, pairs, log_) ==
    IF i > Len(scan) THEN UpdateResult("Ok", "", Some(StatusAdd(pairs)), db_, log_)
    ELSE LET key_ == scan[i][1]
             prev == scan[i][2]
             log1 == IF v.des # None
                     THEN Append(log_, Ev("deserializer", key_, prev))
                     ELSE log_
         IN  IF type_mismatch(v.des, Some(prev))
             THEN UpdateResult("Err", "TypeMismatch", None, db_, log1)
             ELSE repeat_add_loop_unreported(self, v, scan, i + 1,
                      write(db_, key_, to_write(self.value)),
                      IF v.des # None THEN Append(pairs, <<key_, v.str>>) ELSE pairs,
                      Append(log1, Ev("write", key_, to_write(self.value))))

\* The for loop of the RepeatAdd arm, from the i-th scanned pair on
RECURSIVE repeat_add_loop(_, _, _, _, _, _, _)
repeat_add_loop(self, v, scan, i, db_, pairs, log_) ==
    IF i > Len(scan) THEN UpdateResult("Ok", "", Some(StatusAdd(pairs)), db_, log_)
    ELSE LET key_ == scan[i][1]
             prev == scan[i][2]
             log1 == IF v.des # None
                     THEN Append(log_, Ev("deserializer", key_, prev))
                     ELSE log_
         IN  IF type_mismatch(v.des, Some(prev))
             THEN UpdateResult("Err", "TypeMismatch", None, db_, log1)
             ELSE repeat_add_loop(self, v, scan, i + 1,
                      write(db_, key_, to_write(self.value)),
                      Append(pairs, <<key_, v.str>>),
                      Append(log1, Ev("write", key_, to_write(self.value))))

\* The RepeatAdd arm
update_repeat_add(self, db_, order) ==
    LET compiled == RegexNew(self.pattern)
        log0     == <<Ev("Regex::new", self.pattern, << >>)>>
    IN  IF compiled = None THEN UpdateResult("Panic", "", None, db_, log0)
        ELSE LET v == validate(self)
                 scan == get_pattern(db_, compiled[1], order)
             IN  IF returns_early(v)
                 THEN UpdateResult(v.res, v.err, None, db_, log0 \o v.log)
                 ELSE repeat_add_loop(self, v, scan, 1, db_, << >>,
                          Append(log0 \o v.log,
                                 Ev("get_pattern", self.pattern, ScannedKeys(scan))))

\* Mutant: only the first scanned key is deleted and reported
RECURSIVE repeat_delete_loop_first(_, _, _, _, _)
repeat_delete_loop_first(scan, i, db_, keys, log_) ==
    IF i > Len(scan) \/ i > 1
    THEN UpdateResult("Ok", "", Some(StatusDeleted(keys)), db_, log_)
    ELSE repeat_delete_loop_first(scan, i + 1, delete(db_, scan[i][1]),
                                  Append(keys, scan[i][1]),
                                  Append(log_, Ev("delete", scan[i][1], << >>)))

\* The map over the scanned pairs of the RepeatDelete arm
RECURSIVE repeat_delete_loop(_, _, _, _, _)
repeat_delete_loop(scan, i, db_, keys, log_) ==
    IF i > Len(scan) THEN UpdateResult("Ok", "", Some(StatusDeleted(keys)), db_, log_)
    ELSE repeat_delete_loop(scan, i + 1, delete(db_, scan[i][1]),
                            Append(keys, scan[i][1]),
                            Append(log_, Ev("delete", scan[i][1], << >>)))

\* The RepeatDelete arm
update_repeat_delete(self, db_, order) ==
    LET compiled == RegexNew(self.pattern)
        log0     == <<Ev("Regex::new", self.pattern, << >>)>>
    IN  IF compiled = None THEN UpdateResult("Panic", "", None, db_, log0)
        ELSE LET scan == get_pattern(db_, compiled[1], order)
             IN  repeat_delete_loop(scan, 1, db_, << >>,
                     Append(log0, Ev("get_pattern", self.pattern, ScannedKeys(scan))))

\* DbUpdateType::update
update(self, db_, order) ==
    CASE self.tag = "Add"          -> update_add(self, db_)
      [] self.tag = "Delete"       -> update_delete(self, db_)
      [] self.tag = "RepeatAdd"    -> update_repeat_add(self, db_, order)
      [] self.tag = "RepeatDelete" -> update_repeat_delete(self, db_, order)

(***************************************************************************)
(* The inputs                                                              *)
(***************************************************************************)
V56 == <<5, 6>>
B56 == BorshVecU8(V56)
U7 == BorshU64(7)
Long9 == Rep(9, PRINTLN_CUTOFF + Extra)
BLong1 == BorshVecU8(Rep(1, PRINTLN_CUTOFF + Extra))

\* Values built by UpdateValue::raw and UpdateValue::from
BuiltValues == {raw(V56), from(V56), from_u64(7)}

\* Values read from a migration script: the wire form carries every field, so a
\* script can pair any type hash with any bytes
ScriptValues ==
    { UpdateValue(HashUnregistered, Serialized(B56)),
      UpdateValue(HashUnregistered, Raw(V56, B56)),
      UpdateValue(HashUnregistered, Raw(Long9, B56)),
      UpdateValue(HashVecU8, Serialized(V56)),
      UpdateValue(HashVecU8, Raw(B56, V56)),
      UpdateValue(HashVecU8, Raw(B56, B56)),
      UpdateValue(HashVecU8, Raw(V56, BLong1)),
      UpdateValue(HashU64, Serialized(B56)),
      UpdateValue(HashU64, Raw(V56, U7)) }

Values == BuiltValues \cup ScriptValues

\* Strings in UTF-8: a short one with a quote and a two-byte character, one
\* that renders to exactly the cutoff, and two of a two-byte character, the
\* one within the cutoff in characters but not in bytes, the other over both
E9 == <<195, 169>>
StrShort == <<97, 34>> \o E9
StrFit == Rep(97, PRINTLN_CUTOFF - 4)
StrWide == RepSeq(E9, (PRINTLN_CUTOFF \div 2) - 2 + Extra)
StrLongWide == RepSeq(E9, PRINTLN_CUTOFF + Extra)

\* Values of type Vec<String>, on which validate() is called; the last is not
\* valid UTF-8
DisplayValues ==
    { from_vec_string(<< >>),
      from_vec_string(<<StrShort, << >>, <<92, 10, 127>> >>),
      from_vec_string(<<StrFit>>),
      from_vec_string(<<StrWide>>),
      from_vec_string(<<StrLongWide>>),
      UpdateValue(HashVecString, Raw(V56, BorshVecString(<<StrWide, StrShort>>))),
      UpdateValue(HashVecString, Serialized(U32LE(1) \o U32LE(1) \o <<255>>)) }

AddOps == {Add(k, v, f) : k \in Keys, v \in Values, f \in BOOLEAN}
DeleteOps == {Delete(k) : k \in Keys}
RepeatAddOps == {RepeatAdd(p, v, f) : p \in Patterns, v \in Values, f \in BOOLEAN}
RepeatDeleteOps == {RepeatDelete(p) : p \in Patterns}

\* validate() reads the key or pattern for its error message only: it is called
\* on one key and on a well-formed and a malformed pattern
ValidateOps ==
    {Add("a/1", v, f) : v \in Values \cup DisplayValues, f \in BOOLEAN}
    \cup {RepeatAdd(p, v, f) : p \in {"a/.*", "("}, v \in Values, f \in BOOLEAN}
    \cup {Delete("a/1"), RepeatDelete("a/.*"), RepeatDelete("(")}

\* The orders in which a store may scan its keys
Orders ==
    {o \in [1..Cardinality(Keys) -> Keys] : \A i, j \in DOMAIN o : o[i] = o[j] => i = j}

(***************************************************************************)
(* The memory of a wasm instance (vm/memory.rs): a wasmer::Memory is a     *)
(* number of pages of bytes under a maximum, and AnomaMemory holds, once   *)
(* initialized, a handle to one.                                           *)
(***************************************************************************)
WASM_PAGE_SIZE == 65536
TX_MEMORY_INIT_PAGES == 100
TX_MEMORY_MAX_PAGES == 200

\* A u64 (and a usize, of the same width on the 64-bit hosts of the node) is
\* held as its four digits in base 2^16, the lowest first; a digit is as wide as
\* a page is long
Digit == WASM_PAGE_SIZE

\* n as u64, for an n below 2^31
U64(n) == <<n % Digit, n \div Digit, 0, 0>>

\* a + b on u64: the sum modulo 2^64, and whether it overflowed
AddU64(a, b) ==
    LET s1 == a[1] + b[1]
        s2 == a[2] + b[2] + (s1 \div Digit)
        s3 == a[3] + b[3] + (s2 \div Digit)
        s4 == a[4] + b[4] + (s3 \div Digit)
    IN  [val |-> <<s1 % Digit, s2 % Digit, s3 % Digit, s4 % Digit>>,
         overflow |-> s4 >= Digit]

\* a - b on u64: the difference modulo 2^64, and whether it overflowed
SubU64(a, b) ==
    LET d1 == a[1] - b[1]
        d2 == a[2] - b[2] - (IF d1 < 0 THEN 1 ELSE 0)
        d3 == a[3] - b[3] - (IF d2 < 0 THEN 1 ELSE 0)
        d4 == a[4] - b[4] - (IF d3 < 0 THEN 1 ELSE 0)
    IN  [val |-> <<d1 % Digit, d2 % Digit, d3 % Digit, d4 % Digit>>,
         overflow |-> d4 < 0]

\* a < b on u64
LessU64(a, b) ==
    \E i \in 1..4 : a[i] < b[i] /\ \A j \in (i + 1)..4 : a[j] = b[j]

\* a / WASM_PAGE_SIZE on u64
DivPage(a) == <<a[2], a[3], a[4], 0>>

\* a as u32: the low 32 bits.  The result is a number of pages, only ever added
\* to the pages of a memory and compared with its maximum, and is held at 2^30,
\* more pages than any memory can have, where it is that or more
as_u32(a) == IF a[2] >= 16384 THEN 1073741824 ELSE a[1] + Digit * a[2]

\* offset as usize, as an index into the bytes of a memory that holds it
as_index(a) == a[1] + Digit * a[2]

\* The offsets of the calls: the start of the memory, the last byte of its
\* initial pages, the last byte of its maximum, the first byte after its initial
\* pages 2^48 bytes on, and the last u64
OffsetsWithin ==
    {U64(0), U64(TX_MEMORY_INIT_PAGES * WASM_PAGE_SIZE - 1),
     U64(TX_MEMORY_MAX_PAGES * WASM_PAGE_SIZE - 1)}
OffsetWide == <<0, TX_MEMORY_INIT_PAGES, 0, 1>>
OffsetLast == <<Digit - 1, Digit - 1, Digit - 1, Digit - 1>>
MemOffsets == OffsetsWithin \cup {OffsetWide, OffsetLast}

\* The longest read
MaxLen == 2

\* The bytes and the strings (in UTF-8) written; 255 is no UTF-8
MemBytes == {<<255>>, <<8, 9>>}
MemStrings == {<<97>>}

\* The bytes of a memory that the calls can reach; every other byte stays 0
MemCells == UNION {as_index(o)..(as_index(o) + MaxLen - 1) : o \in OffsetsWithin}

\* prepare_tx_memory: a memory of the initial pages, all bytes 0
prepare_tx_memory ==
    [pages |-> TX_MEMORY_INIT_PAGES, maximum |-> Some(TX_MEMORY_MAX_PAGES),
     cells |-> [o \in MemCells |-> 0]]

\* The memories that instances export, by their handles
MemoryHandles == {"m1", "m2"}

\* exports.get_memory("memory"): the handle of the export, None where there is none
Exports == {None} \cup {Some(h) : h \in MemoryHandles}

\* memory.data_size()
data_size(m) == m.pages * WASM_PAGE_SIZE

\* memory.grow(delta): the memory grown, None for the MemoryError
grow(m, delta) ==
    IF m.maximum # None /\ m.pages + delta > m.maximum[1] THEN None
    ELSE Some([m EXCEPT !.pages = @ + delta])

\* The result of a call on a memory, or on the memories, and what it left of them
MemResult(res, err, val, memory_) ==
    [res |-> res, err |-> err, val |-> val, memory |-> memory_]

\* check_bounds; an arithmetic overflow panics in a build with overflow checks
\* and wraps in one without
check_bounds(m, offset, len, overflow_checks) ==
    LET end == AddU64(offset, U64(len))
    IN  IF end.overflow /\ overflow_checks THEN MemResult("Panic", "", None, m)
        ELSE IF LessU64(U64(data_size(m)), end.val)
        THEN LET cur_pages == m.pages
                 capacity  == U64(cur_pages * WASM_PAGE_SIZE)
                 missing   == SubU64(end.val, capacity)
                 padded    == AddU64(missing.val, U64(WASM_PAGE_SIZE - 1))
                 req_pages == as_u32(DivPage(padded.val))
                 grown     == grow(m, req_pages)
             IN  IF overflow_checks /\ (missing.overflow \/ padded.overflow)
                 THEN MemResult("Panic", "", None, m)
                 ELSE IF grown = None
                 THEN MemResult("Err", "MemoryOutOfBounds", None, m)
                 ELSE MemResult("Ok", "", None, grown[1])
        ELSE MemResult("Ok", "", None, m)

\* memory.view()[offset..(offset + len)]: whether the range is one of the bytes
\* of m; indexing panics where it is not
in_view(m, offset, len) ==
    LET end == AddU64(offset, U64(len))
    IN  ~end.overflow /\ ~LessU64(U64(data_size(m)), end.val)

read_memory_bytes(m, offset, len, overflow_checks) ==
    LET c == check_bounds(m, offset, len, overflow_checks)
    IN  IF c.res # "Ok" THEN c
        ELSE IF ~in_view(c.memory, offset, len)
        THEN MemResult("Panic", "", None, c.memory)
        ELSE MemResult("Ok", "",
                 Some([i \in 1..len |-> c.memory.cells[as_index(offset) + i - 1]]),
                 c.memory)

write_memory_bytes(m, offset, bytes_, overflow_checks) ==
    LET c == check_bounds(m, offset, Len(bytes_), overflow_checks)
    IN  IF c.res # "Ok" THEN c
        ELSE IF ~in_view(c.memory, offset, Len(bytes_))
        THEN MemResult("Panic", "", None, c.memory)
        ELSE MemResult("Ok", "", None,
                 [c.memory EXCEPT !.cells =
                     [o \in DOMAIN @ |->
                         IF o >= as_index(offset) /\ o < as_index(offset) + Len(bytes_)
                         THEN bytes_[o - as_index(offset) + 1] ELSE @[o]]])

\* Mutant: a further initialization replaces the memory
init_env_memory_replacing(inner_, exports) ==
    IF exports = None THEN [res |-> "Err", err |-> "HostEnvInitError", inner |-> inner_]
    ELSE [res |-> "Ok", err |-> "", inner |-> exports]

\* AnomaMemory::init_env_memory: LazyInit::initialize sets the value only where
\* none is set yet
init_env_memory(inner_, exports) ==
    IF exports = None THEN [res |-> "Err", err |-> "HostEnvInitError", inner |-> inner_]
    ELSE [res |-> "Ok", err |-> "", inner |-> IF inner_ = None THEN exports ELSE inner_]

\* AnomaMemory::read_bytes: the bytes and the gas
read_bytes(inner_, memory_, offset, len, overflow_checks) ==
    IF inner_ = None THEN MemResult("Err", "UninitializedMemory", None, memory_)
    ELSE LET r == read_memory_bytes(memory_[inner_[1]], offset, len, overflow_checks)
         IN  MemResult(r.res, r.err,
                 IF r.res = "Ok" THEN Some(<<r.val[1], Len(r.val[1])>>) ELSE None,
                 [memory_ EXCEPT ![inner_[1]] = r.memory])

\* AnomaMemory::write_bytes: the gas
write_bytes(inner_, memory_, offset, bytes_, overflow_checks) ==
    LET gas == Len(bytes_)
    IN  IF inner_ = None THEN MemResult("Err", "UninitializedMemory", None, memory_)
        ELSE LET r == write_memory_bytes(memory_[inner_[1]], offset, bytes_,
                                         overflow_checks)
             IN  MemResult(r.res, r.err, IF r.res = "Ok" THEN Some(gas) ELSE None,
                           [memory_ EXCEPT ![inner_[1]] = r.memory])

\* AnomaMemory::read_string: the string (its UTF-8 bytes) and the gas; expect()
\* panics where the bytes read are not UTF-8
read_string(inner_, memory_, offset, len, overflow_checks) ==
    LET r == read_bytes(inner_, memory_, offset, len, overflow_checks)
    IN  IF r.res = "Ok" /\ DebugString(r.val[1][1]) = None
        THEN MemResult("Panic", "", None, r.memory)
        ELSE r

\* AnomaMemory::write_string
write_string(inner_, memory_, offset, string, overflow_checks) ==
    write_bytes(inner_, memory_, offset, string, overflow_checks)

(***************************************************************************)
(* The state: the store, the memories, and the last call made              *)
(***************************************************************************)
VARIABLES
    db,      \* the store: the value under each key, None where there is none
    db0,     \* the store before the last call
    called,  \* "none", "validate", "update" or "update_again" (an update of the
             \* entry of the update before it): the call whose result is held
    self,    \* the DbUpdateType the last call was made on
    ret,     \* what the call returned: Ok(val), Err(err) or a panic
    log,     \* the effects of the call, in the order the code performed them
    inner,   \* AnomaMemory::inner: None, or the handle it was initialized to
    memory,  \* the memory behind each handle
    inner0,  \* inner before the last call
    memory0  \* the memories before the last call

mem_vars == <<inner, memory, inner0, memory0>>

vars == <<db, db0, called, self, ret, log, inner, memory, inner0, memory0>>

Ret(res, err, val) == [res |-> res, err |-> err, val |-> val]

Init ==
    /\ db = [k \in Keys |-> CASE k = "a/1" -> Some(B56)
                              [] k = "a/2" -> Some(V56)
                              [] OTHER     -> None]
    /\ db0 = db
    /\ called = "none"
    /\ self = [tag |-> "None"]
    /\ ret = Ret("Ok", "", None)
    /\ log = << >>
    /\ inner = None
    /\ memory = [h \in MemoryHandles |-> prepare_tx_memory]
    /\ inner0 = inner
    /\ memory0 = memory

\* self.validate(), for any DbUpdateType
Validate ==
    /\ called = "none"
    /\ \E op \in ValidateOps :
        \E v \in {validate(op)} :
            /\ called' = "validate"
            /\ self' = op
            /\ ret' = Ret(v.res, v.err,
                          IF v.res = "Ok" THEN Some(<<v.str, v.des>>) ELSE None)
            /\ log' = v.log
            /\ db0' = db
            /\ db' = db
    /\ UNCHANGED mem_vars

\* self.update(&mut db) for self an Add
UpdateAdd ==
    /\ called = "none"
    /\ \E op \in AddOps :
        \E u \in {update(op, db, << >>)} :
            /\ called' = "update"
            /\ self' = op
            /\ ret' = Ret(u.res, u.err, u.status)
            /\ log' = u.log
            /\ db0' = db
            /\ db' = u.db
    /\ UNCHANGED mem_vars

\* self.update(&mut db) for self a Delete
UpdateDelete ==
    /\ called = "none"
    /\ \E op \in DeleteOps :
        \E u \in {update(op, db, << >>)} :
            /\ called' = "update"
            /\ self' = op
            /\ ret' = Ret(u.res, u.err, u.status)
            /\ log' = u.log
            /\ db0' = db
            /\ db' = u.db
    /\ UNCHANGED mem_vars

\* self.update(&mut db) for self a RepeatAdd, the store scanning in any order
UpdateRepeatAdd ==
    /\ called = "none"
    /\ \E op \in RepeatAddOps, order \in Orders :
        \E u \in {update(op, db, order)} :
            /\ called' = "update"
            /\ self' = op
            /\ ret' = Ret(u.res, u.err, u.status)
            /\ log' = u.log
            /\ db0' = db
            /\ db' = u.db
    /\ UNCHANGED mem_vars

\* self.update(&mut db) for self a RepeatDelete, the store scanning in any order
UpdateRepeatDelete ==
    /\ called = "none"
    /\ \E op \in RepeatDeleteOps, order \in Orders :
        \E u \in {update(op, db, order)} :
            /\ called' = "update"
            /\ self' = op
            /\ ret' = Ret(u.res, u.err, u.status)
            /\ log' = u.log
            /\ db0' = db
            /\ db' = u.db
    /\ UNCHANGED mem_vars

\* self.update(&mut db) once more for an Add that has just succeeded, on the store
\* it left (the same entry applied twice)
UpdateAddAgain ==
    /\ called = "update"
    /\ self.tag = "Add"
    /\ ret.res = "Ok"
    /\ \E u \in {update(self, db, << >>)} :
           /\ called' = "update_again"
           /\ self' = self
           /\ ret' = Ret(u.res, u.err, u.status)
           /\ log' = u.log
           /\ db0' = db
           /\ db' = u.db
    /\ UNCHANGED mem_vars

\* The caller is done with the result of the call (an UpdateStatus is printed and
\* dropped); the store stays as the call left it
Return ==
    /\ called # "none"
    /\ called' = "none"
    /\ self' = [tag |-> "None"]
    /\ ret' = Ret("Ok", "", None)
    /\ log' = << >>
    /\ db0' = db
    /\ db' = db
    /\ inner0' = inner
    /\ memory0' = memory
    /\ UNCHANGED <<inner, memory>>

Next ==
    \/ Validate
    \/ UpdateAdd
    \/ UpdateDelete
    \/ UpdateRepeatAdd
    \/ UpdateRepeatDelete
    \/ UpdateAddAgain
    \/ Return

Spec == Init /\ [][Next]_vars

(***************************************************************************)
(* The wire form of an UpdateValue in a migration script: the upper-case   *)
(* hex of its borsh serialization.  On the wire the type hash is its 32    *)
(* bytes.                                                                  *)
(***************************************************************************)
\* The borsh serialization of a Vec<u8> field
BorshBytes(v) == U32LE(Len(v)) \o v

\* UpdateBytes::serialize: the index of the variant, then its fields
BorshUpdateBytes(bytes_) ==
    IF bytes_.tag = "Raw"
    THEN <<0>> \o BorshBytes(bytes_.to_write) \o BorshBytes(bytes_.serialized)
    ELSE <<1>> \o BorshBytes(bytes_.bytes)

\* self.serialize_to_vec() for an UpdateValue: the 32 bytes of the hash, then bytes
serialize_to_vec(value) == value.type_hash \o BorshUpdateBytes(value.bytes)

HexUpperChars ==
    <<"0", "1", "2", "3", "4", "5", "6", "7", "8", "9", "A", "B", "C", "D", "E", "F">>

\* HEXUPPER.encode of the bytes b[lo..hi]: two symbols for each byte
RECURSIVE HexEncodeIn(_, _, _)
HexEncodeIn(b, lo, hi) ==
    IF lo > hi THEN << >>
    ELSE IF lo = hi
    THEN <<HexUpperChars[(b[lo] \div 16) + 1], HexUpperChars[(b[lo] % 16) + 1]>>
    ELSE LET mid == (lo + hi) \div 2
         IN  HexEncodeIn(b, lo, mid) \o HexEncodeIn(b, mid + 1, hi)

HexEncode(b) == HexEncodeIn(b, 1, Len(b))

\* The value of a symbol of HEXUPPER, 16 for any other character
HexValue(c) ==
    IF \E i \in DOMAIN HexUpperChars : HexUpperChars[i] = c
    THEN (CHOOSE i \in DOMAIN HexUpperChars : HexUpperChars[i] = c) - 1
    ELSE 16

\* HEXUPPER.decode: None for the error on an odd length or on a character that
\* is not a symbol
HexDecode(str) ==
    IF Len(str) % 2 = 0 /\ \A i \in DOMAIN str : HexValue(str[i]) < 16
    THEN Some([i \in 1..(Len(str) \div 2) |->
                  16 * HexValue(str[2 * i - 1]) + HexValue(str[2 * i])])
    ELSE None

\* Vec::<u8>::deserialize_reader at place at of b: the bytes and the place after
\* them, None where the input ends early
ReadBytes(b, at) ==
    IF at + 3 > Len(b) THEN None
    ELSE LET len == U32At(b, at)
         IN  IF at + 3 + len > Len(b) THEN None
             ELSE Some([vec |-> SubSeq(b, at + 4, at + 3 + len), next |-> at + 4 + len])

\* UpdateValue::deserialize_reader: the value and the place after it
ReadUpdateValue(b) ==
    IF Len(b) < 33 THEN None
    ELSE LET type_hash == SubSeq(b, 1, 32)
         IN  IF b[33] = 0
             THEN LET w == ReadBytes(b, 34)
                  IN  IF w = None THEN None
                      ELSE LET c == ReadBytes(b, w[1].next)
                           IN  IF c = None THEN None
                               ELSE Some([value |-> UpdateValue(type_hash,
                                                        Raw(w[1].vec, c[1].vec)),
                                          next |-> c[1].next])
             ELSE IF b[33] = 1
             THEN LET c == ReadBytes(b, 34)
                  IN  IF c = None THEN None
                      ELSE Some([value |-> UpdateValue(type_hash, Serialized(c[1].vec)),
                                 next |-> c[1].next])
             ELSE None

\* Mutant: bytes after the value are ignored
try_from_slice_prefix(b) ==
    LET r == ReadUpdateValue(b)
    IN  IF r = None THEN None ELSE Some(r[1].value)

\* UpdateValue::try_from_slice: the value, None for the error where the bytes are
\* not a value or go on after it
try_from_slice(b) ==
    LET r == ReadUpdateValue(b)
    IN  IF r = None \/ r[1].next # Len(b) + 1 THEN None ELSE Some(r[1].value)

\* Serialize for UpdateValue: the string handed to the serializer
serialize(value) == HexEncode(serialize_to_vec(value))

\* UpdateValueVisitor::visit_str
visit_str(v) ==
    LET decoded == HexDecode(v)
    IN  IF decoded = None THEN Ret("Err", "custom", None)
        ELSE LET value == try_from_slice(decoded[1])
             IN  IF value = None THEN Ret("Err", "custom", None)
                 ELSE Ret("Ok", "", value)

\* Type hashes on the wire
WireHashes == {Rep(0, 32), Rep(255, 32), Rep(171, 16) \o Rep(9, 16)}

\* Every byte once
AllBytes == [i \in 1..256 |-> i - 1]

WirePayloads ==
    { Serialized(<< >>), Serialized(V56), Serialized(B56), Serialized(AllBytes),
      Serialized(<<0>>), Serialized(<<1, 0, 0, 0, 0>>),
      Raw(<< >>, << >>), Raw(V56, B56), Raw(V56, << >>), Raw(<< >>, V56),
      Raw(Long9, B56), Raw(AllBytes, BLong1) }

WireValues == {UpdateValue(h, b) : h \in WireHashes, b \in WirePayloads}

\* The string with its letters in lower case
LowerCase(str) ==
    [i \in DOMAIN str |->
        CASE str[i] = "A" -> "a" [] str[i] = "B" -> "b" [] str[i] = "C" -> "c"
          [] str[i] = "D" -> "d" [] str[i] = "E" -> "e" [] str[i] = "F" -> "f"
          [] OTHER -> str[i]]

\* Bytes that are not the serialization of an UpdateValue: too short for the
\* hash and the variant, a variant index that is none, a length prefix beyond
\* the end, a field missing, bytes left over
MalformedBytes ==
    { << >>, Rep(7, 32), Rep(7, 32) \o <<2>> \o BorshBytes(V56),
      Rep(7, 32) \o <<1>>, Rep(7, 32) \o <<1, 3, 0, 0, 0>> \o V56,
      Rep(7, 32) \o <<1, 255, 255, 255, 255>> \o V56,
      Rep(7, 32) \o <<0>> \o BorshBytes(V56),
      Rep(7, 32) \o <<1>> \o BorshBytes(V56) \o <<0>>,
      Rep(7, 32) \o <<0>> \o BorshBytes(V56) \o BorshBytes(B56) \o BorshBytes(V56) }

\* Strings of a script: wire forms, wire forms in lower case or cut by one
\* character or with a character that is no symbol, and the hex of bytes that
\* are not an UpdateValue
ScriptStrings ==
    LET wire == {serialize(v) : v \in {w \in WireValues : Len(to_write(w)) <= 5}}
    IN  wire
        \cup {LowerCase(str) : str \in wire}
        \cup {SubSeq(str, 1, Len(str) - 1) : str \in wire}
        \cup {[str EXCEPT ![Len(str)] = "G"] : str \in wire}
        \cup {<<" ">> \o str : str \in wire}
        \cup {HexEncode(b) : b \in MalformedBytes}

\* An UpdateValue is written to a script
Serialize ==
    /\ called = "none"
    /\ \E value \in WireValues :
        /\ called' = "serialize"
        /\ self' = value
        /\ ret' = Ret("Ok", "", Some(serialize(value)))
    /\ UNCHANGED <<db, db0, log>>
    /\ UNCHANGED mem_vars

\* The string just written is read back
DeserializeWritten ==
    /\ called = "serialize"
    /\ called' = "deserialize"
    /\ self' = [tag |-> "Written", value |-> self, str |-> ret.val[1]]
    /\ ret' = visit_str(ret.val[1])
    /\ UNCHANGED <<db, db0, log>>
    /\ UNCHANGED mem_vars

\* A string of a script is read
DeserializeScript ==
    /\ called = "none"
    /\ \E str \in ScriptStrings :
        /\ called' = "deserialize"
        /\ self' = [tag |-> "Script", str |-> str]
        /\ ret' = visit_str(str)
    /\ UNCHANGED <<db, db0, log>>
    /\ UNCHANGED mem_vars

WireNext ==
    \/ Serialize
    \/ DeserializeWritten
    \/ DeserializeScript
    \/ Return

SpecWire == Init /\ [][WireNext]_vars

(***************************************************************************)
(* The application of a migration script (DbChanges): update is called on  *)
(* the entries of changes in list order, on one store, and the first error *)
(* ends the application and is returned.  A panic of an update ends the    *)
(* process.                                                                *)
(***************************************************************************)
\* The longest script applied
MaxChanges == 3

\* Entries of scripts: two that succeed on every store, one whose validate()
\* fails, a raw RepeatAdd that fails on a previous value it does not decode
\* after it may have written others, a RepeatDelete, and one that panics
ScriptOps ==
    { Add("b/1", from(V56), FALSE),
      Add("a/2", raw(V56), TRUE),
      Add("a/1", UpdateValue(HashUnregistered, Serialized(B56)), FALSE),
      RepeatAdd("a/.*", raw(V56), FALSE),
      RepeatDelete("a/.*"),
      RepeatDelete("(") }

\* DbChanges { changes }
DbChanges(changes_) == [tag |-> "DbChanges", changes |-> changes_]

Scripts ==
    {DbChanges(c) : c \in UNION {[1..n -> ScriptOps] : n \in 0..MaxChanges}}

\* The orders in which the store of a script scans its keys
ScriptOrders == {<<"a/1", "a/2", "b/1">>, <<"b/1", "a/2", "a/1">>}

\* The application of a script begins: no entry is applied yet
ApplyStart ==
    /\ called = "none"
    /\ \E script \in Scripts, order \in ScriptOrders :
        self' = [tag |-> "DbChanges", changes |-> script.changes,
                 order |-> order, applied |-> 0]
    /\ called' = "apply"
    /\ ret' = Ret("Ok", "", None)
    /\ log' = << >>
    /\ db0' = db
    /\ db' = db
    /\ UNCHANGED mem_vars

\* Whether the application goes on after an entry with this result
apply_goes_on(res) == res = "Ok"

\* change.update(&mut db) for the next entry of the script
ApplyEntry ==
    /\ called = "apply"
    /\ apply_goes_on(ret.res)
    /\ self.applied < Len(self.changes)
    /\ \E i \in {self.applied + 1} :
       \E u \in {update(self.changes[i], db, self.order)} :
           /\ self' = [self EXCEPT !.applied = i]
           /\ ret' = Ret(u.res, u.err, u.status)
           /\ log' = log \o <<Ev("update", "changes", <<i>>)>> \o u.log
                         \o <<Ev("returned", u.res, <<i>>)>>
           /\ db' = u.db
    /\ UNCHANGED <<called, db0>>
    /\ UNCHANGED mem_vars

\* The application returns: every entry is applied, or one returned an error
ApplyReturn ==
    /\ called = "apply"
    /\ \/ ret.res = "Err"
       \/ ret.res = "Ok" /\ self.applied = Len(self.changes)
    /\ Return

ScriptNext ==
    \/ ApplyStart
    \/ ApplyEntry
    \/ ApplyReturn

SpecScript == Init /\ [][ScriptNext]_vars

(***************************************************************************)
(* The calls on an AnomaMemory                                             *)
(***************************************************************************)
\* env.init_env_memory(exports), for any exports
InitEnvMemory ==
    /\ called = "none"
    /\ \E exports \in Exports :
        LET r == init_env_memory(inner, exports)
        IN  /\ self' = [tag |-> "init_env_memory", exports |-> exports]
            /\ ret' = Ret(r.res, r.err, None)
            /\ inner' = r.inner
    /\ called' = "init_env_memory"
    /\ inner0' = inner
    /\ memory0' = memory
    /\ UNCHANGED <<db, db0, log, memory>>

AnomaReadBytes ==
    /\ called = "none"
    /\ \E offset \in MemOffsets, len \in 0..MaxLen, overflow_checks \in BOOLEAN :
        \E r \in {read_bytes(inner, memory, offset, len, overflow_checks)} :
            /\ self' = [tag |-> "read_bytes", offset |-> offset, len |-> len]
            /\ ret' = Ret(r.res, r.err, r.val)
            /\ memory' = r.memory
    /\ called' = "read_bytes"
    /\ inner0' = inner
    /\ memory0' = memory
    /\ UNCHANGED <<db, db0, log, inner>>

AnomaWriteBytes ==
    /\ called = "none"
    /\ \E offset \in MemOffsets, bytes_ \in MemBytes, overflow_checks \in BOOLEAN :
        \E r \in {write_bytes(inner, memory, offset, bytes_, overflow_checks)} :
            /\ self' = [tag |-> "write_bytes", offset |-> offset, bytes |-> bytes_]
            /\ ret' = Ret(r.res, r.err, r.val)
            /\ memory' = r.memory
    /\ called' = "write_bytes"
    /\ inner0' = inner
    /\ memory0' = memory
    /\ UNCHANGED <<db, db0, log, inner>>

AnomaReadString ==
    /\ called = "none"
    /\ \E offset \in MemOffsets, len \in 0..MaxLen, overflow_checks \in BOOLEAN :
        \E r \in {read_string(inner, memory, offset, len, overflow_checks)} :
            /\ self' = [tag |-> "read_string", offset |-> offset, len |-> len]
            /\ ret' = Ret(r.res, r.err, r.val)
            /\ memory' = r.memory
    /\ called' = "read_string"
    /\ inner0' = inner
    /\ memory0' = memory
    /\ UNCHANGED <<db, db0, log, inner>>

AnomaWriteString ==
    /\ called = "none"
    /\ \E offset \in MemOffsets, string \in MemStrings, overflow_checks \in BOOLEAN :
        \E r \in {write_string(inner, memory, offset, string, overflow_checks)} :
            /\ self' = [tag |-> "write_string", offset |-> offset, bytes |-> string]
            /\ ret' = Ret(r.res, r.err, r.val)
            /\ memory' = r.memory
    /\ called' = "write_string"
    /\ inner0' = inner
    /\ memory0' = memory
    /\ UNCHANGED <<db, db0, log, inner>>

MemNext ==
    \/ InitEnvMemory
    \/ AnomaReadBytes
    \/ AnomaWriteBytes
    \/ AnomaReadString
    \/ AnomaWriteString
    \/ Return

SpecMem == Init /\ [][MemNext]_vars

(***************************************************************************)
(* Vocabulary of the properties, stated on the fields of the inputs and on *)
(* the recorded call, not through the operators that model the code        *)
(***************************************************************************)
\* The bytes of a value that are to be persisted, and its canonical bytes
Persisted(value) ==
    IF value.bytes.tag = "Raw" THEN value.bytes.to_write ELSE value.bytes.bytes
Canonical(value) ==
    IF value.bytes.tag = "Raw" THEN value.bytes.serialized ELSE value.bytes.bytes
RawValue(value) == value.bytes.tag = "Raw"

Registered(type_hash_) == type_hash_ \in {HashVecU8, HashVecString, HashU64}

\* Whether the decoder registered for the type hash accepts the bytes
Decodes(type_hash_, b) ==
    CASE type_hash_ = HashVecU8     -> DeserializeVecU8(b) # None
      [] type_hash_ = HashVecString -> DeserializeVecString(b) # None
      [] type_hash_ = HashU64       -> DeserializeU64(b) # None

\* The declared type is registered and the canonical bytes decode under it
WellTyped(value) ==
    Registered(value.type_hash) /\ Decodes(value.type_hash, Canonical(value))

Updated == called \in {"update", "update_again"}
UpdatedAdd == Updated /\ self.tag = "Add"
UpdatedRepeatAdd == Updated /\ self.tag = "RepeatAdd"
UpdatedAnyAdd == Updated /\ IsAdd(self)

\* The call ran validate() (update does so unless the pattern did not compile)
ValidateRan == \E i \in DOMAIN log : log[i].ev = "validate"

\* The events of one kind in the log of the call
Events(ev) == {i \in DOMAIN log : log[i].ev = ev}

\* The deserializer was run on a previous value of the store
DecodedPrevious == \E i \in Events("deserializer") : log[i].on \in Keys

Compiles(pattern_) == pattern_ # "("

\* The keys the store held before the call that the pattern matches
Matched(pattern_) == {k \in Keys : db0[k] # None /\ is_match(pattern_, k)}

\* The keys the store scanned in the call, in scan order
Scan == log[CHOOSE i \in Events("get_pattern") : TRUE].val

(***************************************************************************)
(* C1: an Add with force = false of a raw value whose declared type is     *)
(* registered and whose canonical bytes decode, over a previous value that *)
(* the decoder of the declared type rejects, fails with the type-mismatch  *)
(* error and leaves the whole store as it was.                             *)
(***************************************************************************)
C1_Case ==
    /\ UpdatedAdd
    /\ ~self.force
    /\ RawValue(self.value)
    /\ WellTyped(self.value)
    /\ db0[self.key] # None
    /\ ~Decodes(self.value.type_hash, db0[self.key][1])

C1_TypeMismatchLeavesStore ==
    C1_Case => /\ ret.res = "Err"
               /\ ret.err = "TypeMismatch"
               /\ db = db0
               /\ Events("write") = {}

C1_Witness == C1_Case /\ ret.err = "TypeMismatch" /\ db[self.key] = db0[self.key]

(***************************************************************************)
(* C2: in an update of an Add or RepeatAdd with force = false no write     *)
(* reaches the store before validate() has succeeded: when the validate()  *)
(* the update runs fails (unknown type hash, or canonical bytes that do    *)
(* not decode), the update returns that error and the store is as it was;  *)
(* every write of such an update comes after validate() and only for a     *)
(* value that validates.  (Where the pattern of a RepeatAdd does not       *)
(* compile the update ends before it calls validate(), and the store is as *)
(* it was just the same.)                                                  *)
(***************************************************************************)
C2_Case ==
    /\ UpdatedAnyAdd
    /\ ~self.force
    /\ ValidateRan
    /\ ~WellTyped(self.value)

C2_NoWriteBeforeValidation ==
    /\ (UpdatedAnyAdd /\ ~self.force /\ ~WellTyped(self.value)) =>
          /\ ret.res # "Ok"
          /\ db = db0
          /\ Events("write") = {}
    /\ C2_Case =>
          /\ ret.res = "Err"
          /\ ret.err = IF Registered(self.value.type_hash) THEN "DecodeFailure"
                       ELSE "UnknownType"
          /\ db = db0
          /\ Events("write") = {}
    /\ (UpdatedAnyAdd /\ ~self.force) =>
          \A w \in Events("write") :
              /\ WellTyped(self.value)
              /\ \E i \in Events("validate") : i < w

C2_Witness ==
    /\ C2_Case
    /\ self.tag = "RepeatAdd"
    /\ Cardinality(Matched(self.pattern)) >= 2
    /\ ret.err = "DecodeFailure"
    /\ db = db0

(***************************************************************************)
(* C3: validate() never fails, by an error or by a panic, on an Add or     *)
(* RepeatAdd with force = true.                                            *)
(***************************************************************************)
C3_ValidateNeverFailsWithForce ==
    (called = "validate" /\ IsAdd(self) /\ self.force) => ret.res = "Ok"

\* The keys an Add or RepeatAdd is to write
Targets == IF self.tag = "Add" THEN {self.key} ELSE Matched(self.pattern)

\* The store is the one before the call with the value persisted under the targets
WroteTargets ==
    \A k \in Keys :
        db[k] = IF k \in Targets THEN Some(Persisted(self.value)) ELSE db0[k]

(***************************************************************************)
(* C4: an update of an Add or RepeatAdd with force = true (of a pattern    *)
(* that compiles) is never rejected: it decodes no previous value and      *)
(* writes the value's to_write bytes to the key, or to every matched key.  *)
(***************************************************************************)
C4_Case ==
    /\ UpdatedAnyAdd
    /\ self.force
    /\ self.tag = "RepeatAdd" => Compiles(self.pattern)

C4_ForceWrites ==
    C4_Case => /\ ret.res = "Ok"
               /\ ~DecodedPrevious
               /\ WroteTargets

(***************************************************************************)
(* C5: after a successful Add, forced or not, over a previous value or     *)
(* none, the store holds exactly the value's to_write bytes at the key     *)
(* (for a raw value the to_write field, not the canonical bytes), every    *)
(* other key is unchanged and the report is the one pair of the key and    *)
(* the display string of validate().                                       *)
(***************************************************************************)
C5_Case == UpdatedAdd /\ ret.res = "Ok"

C5_AddWritesToWrite ==
    C5_Case =>
        /\ db[self.key] = Some(Persisted(self.value))
        /\ \A k \in Keys \ {self.key} : db[k] = db0[k]
        /\ ret.val = Some(StatusAdd(<< <<self.key, validate(self).str>> >>))

C5_Witness ==
    /\ C5_Case
    /\ ~self.force
    /\ RawValue(self.value)
    /\ self.value.bytes.to_write # self.value.bytes.serialized
    /\ db0[self.key] # None
    /\ db0[self.key] # db[self.key]
    /\ db[self.key] = Some(self.value.bytes.to_write)

(***************************************************************************)
(* C6: validate() on an Add or RepeatAdd with force = false whose type     *)
(* hash is not registered fails with the unknown-type error, for either    *)
(* payload variant and any bytes, and runs no deserializer; an update that *)
(* runs validate() returns the same error.                                 *)
(***************************************************************************)
C6_Case ==
    /\ called \in {"validate", "update"}
    /\ ValidateRan
    /\ IsAdd(self)
    /\ ~self.force
    /\ self.value.type_hash = HashUnregistered

C6_UnknownType ==
    C6_Case => /\ ret.res = "Err"
               /\ ret.err = "UnknownType"
               /\ Events("deserializer") = {}

C6_Witness ==
    /\ C6_Case
    /\ called = "validate"
    /\ RawValue(self.value)
    /\ ret.err = "UnknownType"

(***************************************************************************)
(* C7: validate() on an Add or RepeatAdd with force = false and a          *)
(* registered type hash runs the registered deserializer once, on the      *)
(* canonical bytes of the value (the serialized field of a raw value), and *)
(* fails with the decode-failure error exactly when the deserializer       *)
(* rejects them; otherwise it succeeds.                                    *)
(***************************************************************************)
C7_Case ==
    /\ called = "validate"
    /\ IsAdd(self)
    /\ ~self.force
    /\ Registered(self.value.type_hash)

C7_DecodesCanonical ==
    C7_Case =>
        /\ Cardinality(Events("deserializer")) = 1
        /\ \A i \in Events("deserializer") :
               log[i].on = "value" /\ log[i].val = Canonical(self.value)
        /\ IF Decodes(self.value.type_hash, Canonical(self.value))
           THEN ret.res = "Ok"
           ELSE ret.res = "Err" /\ ret.err = "DecodeFailure"

C7_Witness ==
    /\ C7_Case
    /\ RawValue(self.value)
    /\ Decodes(self.value.type_hash, self.value.bytes.to_write)
    /\ ~Decodes(self.value.type_hash, self.value.bytes.serialized)
    /\ ret.err = "DecodeFailure"

(***************************************************************************)
(* C8: validate() returns a deserializer only for a raw value; an update   *)
(* of an Add or RepeatAdd with force = false whose value is not raw (and   *)
(* validates, under a pattern that compiles) decodes no previous value: it *)
(* succeeds and overwrites the key, or every matched key, also where the   *)
(* previous value does not decode under the declared type.                 *)
(***************************************************************************)
C8_Case ==
    /\ UpdatedAnyAdd
    /\ ~self.force
    /\ ~RawValue(self.value)
    /\ WellTyped(self.value)
    /\ self.tag = "RepeatAdd" => Compiles(self.pattern)

C9_Rejected(k) == ~Decodes(self.value.type_hash, db0[k][1])

C9_Case ==
    /\ UpdatedRepeatAdd
    /\ ~self.force
    /\ RawValue(self.value)
    /\ WellTyped(self.value)
    /\ Compiles(self.pattern)
    /\ \E k \in Matched(self.pattern) : C9_Rejected(k)

\* The place in the scan of the first key whose previous value is rejected
C9_First ==
    CHOOSE i \in DOMAIN Scan :
        C9_Rejected(Scan[i]) /\ \A j \in 1..(i - 1) : ~C9_Rejected(Scan[j])

C9_PartialWritesStay ==
    C9_Case =>
        /\ {Scan[i] : i \in DOMAIN Scan} = Matched(self.pattern)
        /\ Len(Scan) = Cardinality(Matched(self.pattern))
        /\ ret.res = "Err"
        /\ ret.err = "TypeMismatch"
        /\ \A j \in DOMAIN Scan :
               db[Scan[j]] = IF j < C9_First THEN Some(Persisted(self.value))
                             ELSE db0[Scan[j]]
        /\ \A k \in Keys \ Matched(self.pattern) : db[k] = db0[k]

C9_Witness ==
    /\ C9_Case
    /\ Len(Scan) = 3
    /\ C9_First = 2
    /\ db[Scan[1]] = Some(self.value.bytes.to_write)
    /\ db[Scan[1]] # db0[Scan[1]]
    /\ ~C9_Rejected(Scan[3])
    /\ db[Scan[3]] = db0[Scan[3]]
    /\ ret.err = "TypeMismatch"

(***************************************************************************)
(* C10: after a successful RepeatAdd every key that matched the pattern    *)
(* at scan time holds the value's to_write bytes, every other key is       *)
(* unchanged (none is created), and the report holds one pair per matched  *)
(* key, each with the display string of validate().                        *)
(***************************************************************************)
C10_Case == UpdatedRepeatAdd /\ ret.res = "Ok"

C10_Report == ret.val[1].list

C10_RepeatAddWritesMatched ==
    C10_Case =>
        /\ WroteTargets
        /\ \A k \in Keys : db0[k] = None => db[k] = None
        /\ ret.val[1].tag = "Add"
        /\ Len(C10_Report) = Cardinality(Matched(self.pattern))
        /\ {C10_Report[i][1] : i \in DOMAIN C10_Report} = Matched(self.pattern)
        /\ \A i \in DOMAIN C10_Report : C10_Report[i][2] = validate(self).str

C10_Witness ==
    /\ C10_Case
    /\ self.pattern = "a/.*"
    /\ ~self.force
    /\ Len(C10_Report) = 2
    /\ db["a/1"] = db["a/2"]
    /\ db0["a/1"] # db0["a/2"]
    /\ db["b/1"] # None
    /\ db["b/1"] # db["a/1"]

(***************************************************************************)
(* C11: a RepeatAdd whose pattern (compiles and) matches no key of the     *)
(* store performs no write and leaves the store as it was; it returns      *)
(* just what its validate() returns, and where that is Ok the report is    *)
(* the empty list of pairs.                                                *)
(***************************************************************************)
C11_Case ==
    /\ UpdatedRepeatAdd
    /\ Compiles(self.pattern)
    /\ Matched(self.pattern) = {}

\* validate() succeeds on the value: it is forced and the preview is in range,
\* or it is not forced and well typed
C11_Validates ==
    IF self.force
    THEN ~(Len(Persisted(self.value)) > PRINTLN_CUTOFF
           /\ Len(Canonical(self.value)) < PRINTLN_CUTOFF)
    ELSE WellTyped(self.value)

C11_NoMatchNoWrite ==
    C11_Case =>
        /\ Events("write") = {}
        /\ db = db0
        /\ (ret.res = "Ok") = C11_Validates
        /\ ret.res = "Ok" => /\ Scan = << >>
                             /\ ret.val = Some(StatusAdd(<< >>))

C11_Witness ==
    /\ C11_Case
    /\ self.pattern = "a/.*"
    /\ db0["b/1"] # None
    /\ ret.res = "Ok"
    /\ ret.val[1].list = << >>
    /\ db = db0

(***************************************************************************)
(* C12: a RepeatDelete of a pattern that compiles always succeeds; it      *)
(* removes exactly the keys of the store that match the pattern and        *)
(* leaves every other key and its value as they were; it runs no           *)
(* validate(), consults no deserializer and reads or writes no value; and  *)
(* its report is the list of the deleted keys, each once, in scan order.   *)
(***************************************************************************)
UpdatedRepeatDelete == Updated /\ self.tag = "RepeatDelete"

C12_Case == UpdatedRepeatDelete /\ Compiles(self.pattern)

C12_Report == ret.val[1].list

C12_RepeatDeleteRemovesMatched ==
    C12_Case =>
        /\ ret.res = "Ok"
        /\ \A k \in Keys :
               db[k] = IF k \in Matched(self.pattern) THEN None ELSE db0[k]
        /\ ~ValidateRan
        /\ \A i \in DOMAIN log : log[i].ev \in {"Regex::new", "get_pattern", "delete"}
        /\ {log[i].on : i \in Events("delete")} = Matched(self.pattern)
        /\ ret.val[1].tag = "Deleted"
        /\ C12_Report = Scan
        /\ {C12_Report[i] : i \in DOMAIN C12_Report} = Matched(self.pattern)
        /\ Len(C12_Report) = Cardinality(Matched(self.pattern))

C12_Witness ==
    /\ C12_Case
    /\ self.pattern = "a/.*"
    /\ db0["a/1"] # None /\ db0["a/2"] # None /\ db0["b/1"] # None
    /\ db["a/1"] = None /\ db["a/2"] = None
    /\ db["b/1"] = db0["b/1"]
    /\ Len(C12_Report) = 2

(***************************************************************************)
(* C13: a Delete always succeeds, whether or not the key is stored: its    *)
(* one effect is the deletion of the key (no registry lookup, no read, no  *)
(* deserializer), every other key is as it was, and it reports the key.    *)
(* validate() on a Delete or a RepeatDelete always returns the empty       *)
(* string and no deserializer, and is_force is false for both.             *)
(***************************************************************************)
UpdatedDelete == Updated /\ self.tag = "Delete"

C13_Deletes == self.tag \in {"Delete", "RepeatDelete"}

C13_DeleteUnconditional ==
    /\ UpdatedDelete =>
          /\ ret.res = "Ok"
          /\ db[self.key] = None
          /\ \A k \in Keys \ {self.key} : db[k] = db0[k]
          /\ log = <<Ev("delete", self.key, << >>)>>
          /\ ret.val = Some(StatusDeleted(<<self.key>>))
    /\ (called = "validate" /\ C13_Deletes) =>
          /\ ret.res = "Ok"
          /\ ret.val = Some(<< << >>, None >>)
          /\ db = db0
    /\ (called # "none" /\ C13_Deletes) => ~is_force(self)

C13_Witness ==
    /\ UpdatedDelete
    /\ db0[self.key] = None
    /\ \E k \in Keys : db0[k] # None
    /\ ret.res = "Ok"
    /\ ret.val[1].list = <<self.key>>
    /\ db = db0

C13_WitnessValidate ==
    /\ called = "validate"
    /\ self.tag = "RepeatDelete"
    /\ ~Compiles(self.pattern)
    /\ ret.res = "Ok"

(***************************************************************************)
(* C18: an update of a RepeatAdd or a RepeatDelete whose pattern is not a  *)
(* valid regular expression panics (it does not return an error), and does *)
(* so before anything else: the one effect of the call is the attempt to   *)
(* compile the pattern, so validate() is not run, nothing is scanned,      *)
(* written or deleted and the store is as it was.  For a RepeatAdd this is *)
(* so whatever the value and the force flag, also where validate() would   *)
(* have failed.                                                            *)
(***************************************************************************)
C18_Case ==
    /\ Updated
    /\ self.tag \in {"RepeatAdd", "RepeatDelete"}
    /\ ~Compiles(self.pattern)

C18_InvalidPatternPanics ==
    C18_Case =>
        /\ ret.res = "Panic"
        /\ ret.err = ""
        /\ ret.val = None
        /\ log = <<Ev("Regex::new", self.pattern, << >>)>>
        /\ db = db0

C18_Witness ==
    /\ C18_Case
    /\ self.tag = "RepeatAdd"
    /\ ~self.force
    /\ ~WellTyped(self.value)
    /\ \E k \in Keys : db0[k] # None
    /\ ret.res = "Panic"
    /\ db = db0

(***************************************************************************)
(* C15: a validate() with force = true that returns, returns no            *)
(* deserializer and a preview that lists at most 300 bytes of the value,   *)
(* whatever the lengths of the to_write and of the canonical bytes.        *)
(***************************************************************************)
\* The number of bytes a rendering "[b1, b2, ...]" lists
ListedBytes(str) ==
    IF \E i \in DOMAIN str : str[i] \in {DigitChars[d] : d \in DOMAIN DigitChars}
    THEN Cardinality({i \in DOMAIN str : str[i] = ","}) + 1
    ELSE 0

C15_Case == called = "validate" /\ IsAdd(self) /\ self.force /\ ret.res = "Ok"

C15_ForcePreviewBounded ==
    C15_Case => /\ ret.val[1][2] = None
                /\ ListedBytes(ret.val[1][1]) <= PRINTLN_CUTOFF

(***************************************************************************)
(* C14: the display string of a validate() with force = false that         *)
(* succeeds is the decoded string itself when that has at most 300         *)
(* characters, and its first 300 characters followed by " ..." when it has *)
(* more, also where characters of the decoded string take more than one    *)
(* byte.                                                                   *)
(***************************************************************************)
C14_Case == called = "validate" /\ IsAdd(self) /\ ~self.force /\ ret.res = "Ok"

\* The string the deserializer of the declared type renders the value to
C14_Decoded == Deserialize(self.value.type_hash, Canonical(self.value))[1]

C14_DisplayString ==
    C14_Case =>
        ret.val[1][1] =
            IF Len(C14_Decoded) <= PRINTLN_CUTOFF THEN C14_Decoded
            ELSE SubSeq(C14_Decoded, 1, PRINTLN_CUTOFF) \o <<" ", ".", ".", ".">>

(***************************************************************************)
(* C19: an Add with force = false that has succeeded succeeds again when   *)
(* it is applied to the store it left, and leaves that store as it is,     *)
(* for raw values as for others.                                           *)
(***************************************************************************)
C19_Case == called = "update_again" /\ ~self.force

C19_AddIdempotent == C19_Case => (ret.res = "Ok" /\ db = db0)

(***************************************************************************)
(* C16: the hex wire form is a two-way inverse.  Reading back the string   *)
(* written for an UpdateValue (raw or serialized, any type hash, any       *)
(* bytes) gives a value equal to it field for field; a string that is read *)
(* to a value is the wire form of that value; and a string that is not     *)
(* upper-case hex (odd length, or a character other than 0-9, A-F), or     *)
(* whose bytes are not a well-formed UpdateValue, is read to an error.     *)
(***************************************************************************)
C16_Read == called = "deserialize"

\* Upper-case hex, stated on the characters
C16_UpperHex(str) ==
    /\ Len(str) % 2 = 0
    /\ \A i \in DOMAIN str :
           str[i] \in {"0", "1", "2", "3", "4", "5", "6", "7", "8", "9",
                       "A", "B", "C", "D", "E", "F"}

C16_WireRoundTrip ==
    /\ (C16_Read /\ self.tag = "Written") =>
          /\ ret.res = "Ok"
          /\ ret.val # None
          /\ ret.val[1].type_hash = self.value.type_hash
          /\ ret.val[1].bytes = self.value.bytes
          /\ C16_UpperHex(self.str)
    /\ (C16_Read /\ ret.res = "Ok") => serialize(ret.val[1]) = self.str
    /\ (C16_Read /\ ~C16_UpperHex(self.str)) => (ret.res = "Err" /\ ret.val = None)
    /\ (C16_Read /\ \E b \in MalformedBytes : self.str = HexEncode(b)) =>
          (ret.res = "Err" /\ ret.val = None)

C16_Witness ==
    /\ C16_Read
    /\ self.tag = "Written"
    /\ self.value.bytes.tag = "Raw"
    /\ Len(self.value.bytes.to_write) > PRINTLN_CUTOFF
    /\ ret.res = "Ok"
    /\ ret.val[1] = self.value

C16_WitnessMalformed ==
    /\ C16_Read
    /\ self.tag = "Script"
    /\ C16_UpperHex(self.str)
    /\ Len(self.str) > 66
    /\ ret.res = "Err"

(***************************************************************************)
(* C17: the application of a migration script calls update on its entries  *)
(* strictly in list order; the first entry that fails ends it, with that    *)
(* failure as its result, and no entry after it is applied; the effects of  *)
(* the entries before it, and those the failing entry had before it failed, *)
(* stay in the store (nothing is rolled back).                              *)
(***************************************************************************)
C17_Applying == called = "apply"

\* The entries update was called on and those it returned from, in log order
C17_Called == SelectSeq(log, LAMBDA e : e.ev = "update")
C17_Returned == SelectSeq(log, LAMBDA e : e.ev = "returned")

\* The store after update on the first n entries of the script, each on the
\* store the one before left, from the store the application began on
RECURSIVE C17_Store(_)
C17_Store(n) ==
    IF n = 0 THEN db0
    ELSE update(self.changes[n], C17_Store(n - 1), self.order).db

\* Whether an entry is one that may change what the store holds under a key
C17_Touches(entry, k) ==
    CASE entry.tag \in {"Add", "Delete"} -> entry.key = k
      [] OTHER -> Compiles(entry.pattern) /\ is_match(entry.pattern, k)

\* The result of update on the n-th entry, on that store
C17_Result(n) == update(self.changes[n], C17_Store(n - 1), self.order)

C17_InOrderUntilFailure ==
    C17_Applying =>
        /\ self.applied <= Len(self.changes)
        /\ Len(C17_Called) = self.applied
        /\ Len(C17_Returned) = self.applied
        /\ \A i \in 1..self.applied :
               /\ C17_Called[i].val = <<i>>
               /\ C17_Returned[i].val = <<i>>
               /\ C17_Returned[i].on = C17_Result(i).res
               /\ i < self.applied => C17_Returned[i].on = "Ok"
        /\ db = C17_Store(self.applied)
        /\ \A i \in 1..self.applied :
               (/\ self.changes[i].tag = "Add"
                /\ C17_Returned[i].on = "Ok"
                /\ \A j \in (i + 1)..self.applied :
                       ~C17_Touches(self.changes[j], self.changes[i].key))
               => db[self.changes[i].key] = Some(Persisted(self.changes[i].value))
        /\ self.applied > 0 =>
               /\ ret.res = C17_Result(self.applied).res
               /\ ret.err = C17_Result(self.applied).err
        /\ (self.applied < Len(self.changes) /\ ret.res # "Ok") => ~ENABLED ApplyEntry

C17_Witness ==
    /\ C17_Applying
    /\ Len(self.changes) = 3
    /\ self.applied = 2
    /\ ret.res = "Err"
    /\ ret.err = "TypeMismatch"
    /\ self.changes[1].tag = "Add"
    /\ db0["b/1"] = None
    /\ db["b/1"] = Some(B56)
    /\ db["a/1"] = Some(V56)
    /\ db0["a/1"] = Some(B56)
    /\ db["a/2"] = db0["a/2"]
    /\ self.changes[3].tag = "RepeatDelete"

(***************************************************************************)
(* C20: an AnomaMemory is initialized at most once.  While it is not       *)
(* initialized (no init_env_memory has succeeded), read_bytes,             *)
(* write_bytes, read_string and write_string return UninitializedMemory    *)
(* and change no memory.  The first init_env_memory that succeeds sets the *)
(* memory; a further one returns Ok and leaves the first memory in place,  *)
(* and every read and write after it acts on that first memory: a read     *)
(* returns its bytes, a write changes its bytes and no other memory.       *)
(***************************************************************************)
C20_Access == called \in {"read_bytes", "write_bytes", "read_string", "write_string"}

C20_Init == called = "init_env_memory"

\* The bytes of a memory from an offset on
C20_Bytes(m, offset, len) == [i \in 1..len |-> m.cells[as_index(offset) + i - 1]]

C20_InitializedOnce ==
    /\ inner0 # None => inner = inner0
    /\ (C20_Access /\ inner0 = None) =>
          /\ ret.res = "Err"
          /\ ret.err = "UninitializedMemory"
          /\ ret.val = None
          /\ memory = memory0
          /\ inner = None
    /\ C20_Init =>
          /\ memory = memory0
          /\ ret.res = IF self.exports = None THEN "Err" ELSE "Ok"
          /\ inner = IF inner0 = None THEN self.exports ELSE inner0
    /\ (C20_Access /\ inner0 # None) =>
          /\ ret.err # "UninitializedMemory"
          /\ \A h \in MemoryHandles \ {inner0[1]} : memory[h] = memory0[h]
          /\ (called \in {"read_bytes", "read_string"} /\ ret.res = "Ok") =>
                 /\ ret.val[1][1] = C20_Bytes(memory0[inner0[1]], self.offset, self.len)
                 /\ memory[inner0[1]].cells = memory0[inner0[1]].cells
          /\ (called \in {"write_bytes", "write_string"} /\ ret.res = "Ok") =>
                 C20_Bytes(memory[inner0[1]], self.offset, Len(self.bytes)) = self.bytes

\* A second initialization, with another memory, after a write to the first
C20_Witness ==
    /\ C20_Init
    /\ inner0 # None
    /\ self.exports # None
    /\ self.exports # inner0
    /\ ret.res = "Ok"
    /\ inner = inner0
    /\ \E o \in MemCells : memory[inner[1]].cells[o] # 0
    /\ \A o \in MemCells : memory[self.exports[1]].cells[o] = 0

\* A read after it, of bytes written to the first memory
C20_WitnessRead ==
    /\ called = "read_bytes"
    /\ inner0 # None
    /\ ret.res = "Ok"
    /\ ret.val[1][1] = <<8, 9>>
    /\ \E h \in MemoryHandles : h # inner0[1] /\ memory[h] = prepare_tx_memory

\* An access before any initialization has succeeded
C20_WitnessUninitialized ==
    /\ called = "write_string"
    /\ inner0 = None
    /\ ret.err = "UninitializedMemory"

(***************************************************************************)
(* C21: for any sequence of reads and writes of a memory, a call whose     *)
(* bounds check passes leaves the memory at least offset + len bytes long; *)
(* the memory grows only where offset + len exceeds its size, and then by  *)
(* exactly ceil((offset + len - capacity) / page size) pages; where that   *)
(* growth would exceed the maximum of the memory the call returns          *)
(* MemoryOutOfBounds and neither the size nor any byte of the memory       *)
(* changes; and a read may grow the memory but changes none of its bytes.  *)
(***************************************************************************)
C21_Reads == called \in {"read_bytes", "read_string"}

C21_Access ==
    /\ called \in {"read_bytes", "write_bytes", "read_string", "write_string"}
    /\ inner0 # None

\* The len of the call, and its offset + len: the sum modulo 2^64 and whether
\* it is 2^64 or more
C21_Len == IF C21_Reads THEN self.len ELSE Len(self.bytes)
C21_End == AddU64(self.offset, U64(C21_Len))

\* Whether offset + len exceeds the bytes of that many pages
C21_Exceeds(pages_) ==
    C21_End.overflow \/ LessU64(U64(pages_ * WASM_PAGE_SIZE), C21_End.val)

\* The memory of the call, before it and after it
C21_Before == memory0[inner0[1]]
C21_After == memory[inner0[1]]

C21_BoundsChecked ==
    C21_Access =>
        /\ ret.res = "Ok" => ~C21_Exceeds(C21_After.pages)
        /\ ~C21_Exceeds(C21_Before.pages) => C21_After.pages = C21_Before.pages
        /\ C21_After.pages # C21_Before.pages =>
               /\ ~C21_Exceeds(C21_After.pages)
               /\ C21_Exceeds(C21_After.pages - 1)
        /\ (C21_Exceeds(C21_Before.pages) /\ ~C21_Exceeds(C21_Before.maximum[1])) =>
               ~C21_Exceeds(C21_After.pages)
        /\ C21_Exceeds(C21_Before.maximum[1]) =>
               /\ ret.res = "Err"
               /\ ret.err = "MemoryOutOfBounds"
               /\ C21_After = C21_Before
        /\ C21_Reads => C21_After.cells = C21_Before.cells

====
